---- MODULE Spec2Model ----
(***************************************************************************)
(* Chat/upload client of scripts/script.js: the DOMContentLoaded closure   *)
(* with its three handlers (sendMessage, uploadFile, the status timer),    *)
(* the backend's answers and the passage of time.                          *)
(*                                                                         *)
(* A text is a sequence of non-empty pieces; concatenation of strings is   *)
(* concatenation of the sequences, the empty string is << >>.  The text    *)
(* typed by the user is a sequence of one-character pieces.                *)
(***************************************************************************)
EXTENDS Integers, Sequences, FiniteSets, TLC

\* ---------------------------------------------------------------- bounds
MaxLen == 2        \* longest text typed into the input field
MaxCalls == 2      \* invocations of sendMessage and uploadFile together

\* ------------------------------------------------------ program constants
Delay == 5         \* setTimeout(..., 5000): one unit is one second

VARIABLES
    chatBox,                \* children of #chat-box, in document order
    nextDiv,                \* identity of the next element createElement returns
    userInput,              \* userInput.value
    csvFile,                \* csvFileInput.files[0]
    uploadStatus,           \* #uploadStatus: textContent and className
    timers,                 \* pending setTimeout callbacks: time left, oldest first
    lastUploadedFileName,   \* the closure's let variable
    chatTasks,              \* suspended sendMessage invocations
    uploadTasks,            \* suspended uploadFile invocations
    invocations,            \* how often each listener has run its handler
    fetched,                \* how many requests fetch has issued to each endpoint
    uploaded                \* the console.log('File uploaded:', ...) lines, oldest first,
                            \* each with the request whose response it reports

vars == <<chatBox, nextDiv, userInput, csvFile, uploadStatus, timers,
          lastUploadedFileName, chatTasks, uploadTasks, invocations, fetched, uploaded>>

\* ------------------------------------------------------------ JS values
Null == [t |-> "null"]
Undefined == [t |-> "undefined"]
Str(s) == [t |-> "string", v |-> s]

\* x || y picks y when x is undefined, null or the empty string
Truthy(x) == x.t = "string" /\ x.v # ""

\* a string value as a text
Text(x) == IF x.v = "" THEN << >> ELSE <<x.v>>

\* what assigning x to textContent stores: null and undefined give ""
TextContent(x) == IF x.t = "string" THEN Text(x) ELSE << >>

\* `${x}` in a template literal
Template(x) == IF x.t = "string" THEN Text(x) ELSE <<x.t>>

\* ------------------------------------------------------- String.trim()
Chars == {" ", "a"}

Inputs == UNION {[1..n -> Chars] : n \in 0..MaxLen}

RECURSIVE TrimStart(_)
TrimStart(s) ==
    IF s # << >> /\ Head(s) = " " THEN TrimStart(Tail(s)) ELSE s

RECURSIVE TrimEnd(_)
TrimEnd(s) ==
    IF s # << >> /\ s[Len(s)] = " " THEN TrimEnd(SubSeq(s, 1, Len(s) - 1)) ELSE s

Trim(s) == TrimEnd(TrimStart(s))

\* ------------------------------------------------------------ the texts
TypingText == <<"...typing...">>
ConnectText == <<"Oops! Could not connect to the chatbot server. Please check if the backend is running.">>
HelloText == <<"Hello! I'm your AI Chatbot. You can upload a file or ask me to generate a dashboard template or summarize a data file.">>
HttpErrorText(status) == <<"HTTP error! status: ", ToString(status)>>
BotErrorText(errorMessage) == <<"Bot Error: ">> \o errorMessage
UploadedText(filename) ==
    <<"File \"">> \o Template(filename)
        \o <<"\" uploaded successfully to 'mangodata' folder. You can now refer to it in your queries.">>
UploadFailedText(message) == <<"Upload failed: ">> \o message
NoFileText == <<"Please select a file first.">>
UploadingText == <<"Uploading...">>

\* messages of the errors the runtime throws
TypeErrorText == <<"Cannot read properties of null">>
SyntaxErrorText == <<"Unexpected token in JSON">>
FetchErrorText == <<"Failed to fetch">>

\* -------------------------------------------------------------- the DOM
Element(id, sender, text) ==
    [id |-> id, classList |-> {"message", sender \o "-message"}, textContent |-> text]

Contains(box, id) == \E i \in 1..Len(box) : box[i].id = id

RemoveChild(box, id) == SelectSeq(box, LAMBDA e : e.id # id)

\* mutant: the placeholder removed is the oldest one of the transcript
RemoveLoadingOldest(box, id) ==
    IF Contains(box, id)
    THEN LET first == CHOOSE i \in 1..Len(box) :
                         /\ box[i].textContent = TypingText
                         /\ \A j \in 1..(i - 1) : box[j].textContent # TypingText
         IN  RemoveChild(box, box[first].id)
    ELSE box

\* mutant: the placeholder is looked up by its class, which finds the first
\* bot message of the transcript
RemoveLoadingByClass(box, id) ==
    IF Contains(box, id)
    THEN LET first == CHOOSE i \in 1..Len(box) :
                         /\ "bot-message" \in box[i].classList
                         /\ \A j \in 1..(i - 1) : "bot-message" \notin box[j].classList
         IN  RemoveChild(box, box[first].id)
    ELSE box

\* if (chatBox.contains(loadingMessageDiv)) chatBox.removeChild(loadingMessageDiv)
RemoveLoading(box, id) == IF Contains(box, id) THEN RemoveChild(box, id) ELSE box

\* addMessage(message, sender) on the children `box`
addMessage(box, id, message, sender) == Append(box, Element(id, sender, message))

ClearedStatus == [textContent |-> << >>, className |-> <<"status-message">>]

\* setUploadStatus(message, type): show it and start a timer that clears it
setUploadStatus(message, type) ==
    /\ uploadStatus' = [textContent |-> message,
                        className |-> <<"status-message ", type>>]
    /\ timers' = Append(timers, Delay)

\* ---------------------------------------------------------- the backend
NoFile == "none"
Files == {"a.csv"}

Statuses == {200, 500}
Ok(status) == status \in 200..299

\* what response.json() settles with: a rejection, the value null, or an object
ChatBodies ==
    {[parsed |-> "reject", response |-> Undefined],
     [parsed |-> "null", response |-> Undefined]}
    \cup {[parsed |-> "object", response |-> r] : r \in {Undefined, Str("hi")}}

UploadBodies(status) ==
    {[parsed |-> "reject", filename |-> Undefined, message |-> Undefined],
     [parsed |-> "null", filename |-> Undefined, message |-> Undefined]}
    \cup IF Ok(status)
         THEN {[parsed |-> "object", filename |-> Undefined, message |-> Undefined]}
              \cup {[parsed |-> "object", filename |-> Str(f), message |-> Str("ok")] :
                       f \in {"a.csv", "b.csv"}}
         ELSE {[parsed |-> "object", filename |-> Undefined, message |-> m] :
                  m \in {Undefined, Str("bad file")}}

NoResponse == [status |-> 0, body |-> [parsed |-> "none"]]

\* the requests are numbered in the order fetch issues them
NextReq == fetched.chat + fetched.upload + 1
Calls == invocations.sendMessage + invocations.uploadFile

\* ----------------------------------------------------------------- Init
Init ==
    /\ chatBox = addMessage(<< >>, 1, HelloText, "bot")
    /\ nextDiv = 2
    /\ userInput = << >>
    /\ csvFile = NoFile
    /\ uploadStatus = ClearedStatus
    /\ timers = << >>
    /\ lastUploadedFileName = Null
    /\ chatTasks = {}
    /\ uploadTasks = {}
    /\ invocations = [sendMessage |-> 0, uploadFile |-> 0]
    /\ fetched = [chat |-> 0, upload |-> 0]
    /\ uploaded = << >>

\* ------------------------------------------------------------ the user
\* The user edits the input field and chooses a file for as long as a handler
\* can still run: an edit after the last invocation is read by nothing.
TypeInput ==
    /\ Calls < MaxCalls
    /\ \E s \in Inputs : s # userInput /\ userInput' = s
    /\ UNCHANGED <<chatBox, nextDiv, csvFile, uploadStatus, timers,
                   lastUploadedFileName, chatTasks, uploadTasks, invocations, fetched, uploaded>>

SelectFile ==
    /\ Calls < MaxCalls
    /\ \E f \in Files \cup {NoFile} : f # csvFile /\ csvFile' = f
    /\ UNCHANGED <<chatBox, nextDiv, userInput, uploadStatus, timers,
                   lastUploadedFileName, chatTasks, uploadTasks, invocations, fetched, uploaded>>

\* --------------------------------------------------------- the listeners
\* mutant: a button is out of action while a request of its handler is pending
ListeningWhenIdle(handler) ==
    IF handler = "sendMessage" THEN chatTasks = {} ELSE uploadTasks = {}

\* addEventListener('click', handler), for good: no listener is ever removed
\* and no control is ever disabled
Listening(handler) == TRUE

\* ---------------------------------------------------------- sendMessage
\* mutant: the input is used as typed
MessageUntrimmed(value) == value

\* const message = userInput.value.trim()
Message(value) == Trim(value)

\* JSON.stringify of an object with the entries `pairs`: an entry whose value
\* is undefined is left out, every other value is written as it is
Stringify(pairs) == {p \in pairs : p[2] # Undefined}

\* what the receiver reads under `key` in the JSON text `body`: undefined when
\* the text has no such entry
Field(body, key) ==
    IF \E p \in body : p[1] = key
    THEN (CHOOSE p \in body : p[1] = key)[2]
    ELSE Undefined

\* mutant: the request does not mention the uploaded file
PayloadWithoutFile(message) ==
    {<<"message", Str(message)>>, <<"last_uploaded_file", Null>>}

\* const payload = {message: message, last_uploaded_file: lastUploadedFileName}
Payload(message) ==
    {<<"message", Str(message)>>, <<"last_uploaded_file", lastUploadedFileName>>}

\* up to the await of fetch
sendMessage ==
    /\ Calls < MaxCalls
    /\ Listening("sendMessage")
    /\ invocations' = [invocations EXCEPT !.sendMessage = @ + 1]
    /\ LET message == Message(userInput) IN
       IF message = << >>
       THEN UNCHANGED <<chatBox, nextDiv, userInput, chatTasks, fetched>>
       ELSE /\ chatBox' = Append(addMessage(chatBox, nextDiv, message, "user"),
                                 Element(nextDiv + 1, "bot", TypingText))
            /\ nextDiv' = nextDiv + 2
            /\ userInput' = << >>
            /\ chatTasks' = chatTasks \cup
                   {[id |-> NextReq, pc |-> "fetch", loadingMessageDiv |-> nextDiv + 1,
                     body |-> Stringify(Payload(message)),
                     response |-> NoResponse]}
            /\ fetched' = [fetched EXCEPT !.chat = @ + 1]
    /\ UNCHANGED <<csvFile, uploadStatus, timers, lastUploadedFileName, uploadTasks,
                   uploaded>>

\* mutant: the error is reported without removing the placeholder
ChatCatchKeepsPlaceholder(t) ==
    /\ chatBox' = addMessage(chatBox, nextDiv, ConnectText, "bot")
    /\ nextDiv' = nextDiv + 1
    /\ chatTasks' = chatTasks \ {t}

\* the catch block of sendMessage, run for task t
ChatCatch(t) ==
    /\ chatBox' = addMessage(RemoveLoading(chatBox, t.loadingMessageDiv),
                             nextDiv, ConnectText, "bot")
    /\ nextDiv' = nextDiv + 1
    /\ chatTasks' = chatTasks \ {t}

\* fetch resolves with a response: the placeholder goes, json() is awaited
ChatResponse(t) ==
    /\ t.pc = "fetch"
    /\ \E status \in Statuses, body \in ChatBodies :
          chatTasks' = (chatTasks \ {t}) \cup
              {[t EXCEPT !.pc = "json", !.response = [status |-> status, body |-> body]]}
    /\ chatBox' = RemoveLoading(chatBox, t.loadingMessageDiv)
    /\ UNCHANGED <<nextDiv, userInput, csvFile, uploadStatus, timers,
                   lastUploadedFileName, uploadTasks, invocations, fetched, uploaded>>

\* mutant: a failed fetch only removes the placeholder
ChatRejectedSilent(t) ==
    /\ chatBox' = RemoveLoading(chatBox, t.loadingMessageDiv)
    /\ nextDiv' = nextDiv
    /\ chatTasks' = chatTasks \ {t}

\* the rejection of fetch is thrown at the await and caught
ChatRejected(t) == ChatCatch(t)

\* fetch rejects: no response at all
ChatFailure(t) ==
    /\ t.pc = "fetch"
    /\ ChatRejected(t)
    /\ UNCHANGED <<userInput, csvFile, uploadStatus, timers,
                   lastUploadedFileName, uploadTasks, invocations, fetched, uploaded>>

\* mutant: the reply is rendered through a template literal
ReplyTemplate(data) == Template(data.response)

\* the text of addMessage(data.response, 'bot')
Reply(data) == TextContent(data.response)

\* mutant: the response is dropped as stale when a newer request is pending
ChatBodyDropsStale(t) ==
    /\ t.pc = "json"
    /\ IF \E u \in chatTasks : u.id > t.id
       THEN chatTasks' = chatTasks \ {t} /\ UNCHANGED <<chatBox, nextDiv>>
       ELSE LET status == t.response.status
                body == t.response.body
            IN IF ~Ok(status)
                  THEN \* errorData = await response.json().catch(() => ({}))
                       LET errorData == IF body.parsed = "reject"
                                        THEN [parsed |-> "object", response |-> Undefined]
                                        ELSE body
                       IN IF errorData.parsed = "null"
                          THEN ChatCatch(t)       \* errorData.response throws a TypeError
                          ELSE LET errorMessage == IF Truthy(errorData.response)
                                                   THEN Text(errorData.response)
                                                   ELSE HttpErrorText(status)
                               IN /\ chatBox' = addMessage(chatBox, nextDiv,
                                                           BotErrorText(errorMessage), "bot")
                                  /\ nextDiv' = nextDiv + 1
                                  /\ chatTasks' = chatTasks \ {t}
                  ELSE IF body.parsed # "object"
                       THEN ChatCatch(t)          \* json() rejected, or data.response throws
                       ELSE /\ chatBox' = addMessage(chatBox, nextDiv, Reply(body), "bot")
                            /\ nextDiv' = nextDiv + 1
                            /\ chatTasks' = chatTasks \ {t}
    /\ UNCHANGED <<userInput, csvFile, uploadStatus, timers,
                   lastUploadedFileName, uploadTasks, invocations, fetched, uploaded>>

\* response.json() settles and the rest of sendMessage runs
ChatBody(t) ==
    /\ t.pc = "json"
    /\ LET status == t.response.status
           body == t.response.body
       IN IF ~Ok(status)
          THEN \* errorData = await response.json().catch(() => ({}))
               LET errorData == IF body.parsed = "reject"
                                THEN [parsed |-> "object", response |-> Undefined]
                                ELSE body
               IN IF errorData.parsed = "null"
                  THEN ChatCatch(t)       \* errorData.response throws a TypeError
                  ELSE LET errorMessage == IF Truthy(errorData.response)
                                           THEN Text(errorData.response)
                                           ELSE HttpErrorText(status)
                       IN /\ chatBox' = addMessage(chatBox, nextDiv,
                                                   BotErrorText(errorMessage), "bot")
                          /\ nextDiv' = nextDiv + 1
                          /\ chatTasks' = chatTasks \ {t}
          ELSE IF body.parsed # "object"
               THEN ChatCatch(t)          \* json() rejected, or data.response throws
               ELSE /\ chatBox' = addMessage(chatBox, nextDiv, Reply(body), "bot")
                    /\ nextDiv' = nextDiv + 1
                    /\ chatTasks' = chatTasks \ {t}
    /\ UNCHANGED <<userInput, csvFile, uploadStatus, timers,
                   lastUploadedFileName, uploadTasks, invocations, fetched, uploaded>>

\* ----------------------------------------------------------- uploadFile
\* mutant: the handler does not look at the selection
SelectedAlways(file) == TRUE

\* the test of  if (!file)
Selected(file) == file # NoFile

\* mutant: the name of the file that was sent is remembered
StoreFileNameOfFile(t, data) == lastUploadedFileName' = Str(t.file)

\* mutant: a response to an older request than one already handled is ignored
StoreFileNameOfNewestRequest(t, data) ==
    lastUploadedFileName' =
        IF \A i \in 1..Len(uploaded) : uploaded[i].id < t.id
        THEN data.filename
        ELSE lastUploadedFileName

\* lastUploadedFileName = data.filename, in the invocation t
StoreFileName(t, data) == lastUploadedFileName' = data.filename

\* up to the await of fetch
uploadFile ==
    /\ Calls < MaxCalls
    /\ Listening("uploadFile")
    /\ invocations' = [invocations EXCEPT !.uploadFile = @ + 1]
    /\ IF ~Selected(csvFile)
       THEN /\ setUploadStatus(NoFileText, "error")
            /\ UNCHANGED <<uploadTasks, fetched>>
       ELSE /\ setUploadStatus(UploadingText, "info")
            /\ uploadTasks' = uploadTasks \cup
                   {[id |-> NextReq, pc |-> "fetch", file |-> csvFile,
                     response |-> NoResponse]}
            /\ fetched' = [fetched EXCEPT !.upload = @ + 1]
    /\ UNCHANGED <<chatBox, nextDiv, userInput, csvFile, lastUploadedFileName, chatTasks,
                   uploaded>>

\* mutant: a failed upload forgets the remembered filename
UploadCatchForgets(t, message) ==
    /\ setUploadStatus(UploadFailedText(message), "error")
    /\ uploadTasks' = uploadTasks \ {t}
    /\ lastUploadedFileName' = Null
    /\ UNCHANGED <<chatBox, nextDiv, uploaded>>

\* the catch block of uploadFile, run for task t with error.message = message
UploadCatch(t, message) ==
    /\ setUploadStatus(UploadFailedText(message), "error")
    /\ uploadTasks' = uploadTasks \ {t}
    /\ UNCHANGED <<chatBox, nextDiv, lastUploadedFileName, uploaded>>

\* fetch resolves with a response: json() is awaited
UploadResponse(t) ==
    /\ t.pc = "fetch"
    /\ \E status \in Statuses : \E body \in UploadBodies(status) :
          uploadTasks' = (uploadTasks \ {t}) \cup
              {[t EXCEPT !.pc = "json", !.response = [status |-> status, body |-> body]]}
    /\ UNCHANGED <<chatBox, nextDiv, userInput, csvFile, uploadStatus, timers,
                   lastUploadedFileName, chatTasks, invocations, fetched, uploaded>>

\* fetch rejects: no response at all
UploadFailure(t) ==
    /\ t.pc = "fetch"
    /\ UploadCatch(t, FetchErrorText)
    /\ UNCHANGED <<userInput, csvFile, chatTasks, invocations, fetched>>

\* response.json() settles and the rest of uploadFile runs
UploadBody(t) ==
    /\ t.pc = "json"
    /\ LET status == t.response.status
           body == t.response.body
       IN IF ~Ok(status)
          THEN LET errorData == IF body.parsed = "reject"
                                THEN [parsed |-> "object", filename |-> Undefined,
                                      message |-> Undefined]
                                ELSE body
               IN IF errorData.parsed = "null"
                  THEN UploadCatch(t, TypeErrorText)
                  ELSE UploadCatch(t, IF Truthy(errorData.message)
                                      THEN Text(errorData.message)
                                      ELSE HttpErrorText(status))
          ELSE IF body.parsed = "reject"
               THEN UploadCatch(t, SyntaxErrorText)
               ELSE IF body.parsed = "null"
                    THEN UploadCatch(t, TypeErrorText)
                    ELSE /\ setUploadStatus(TextContent(body.message), "success")
                         /\ StoreFileName(t, body)
                         /\ chatBox' = addMessage(chatBox, nextDiv,
                                                  UploadedText(body.filename), "bot")
                         /\ nextDiv' = nextDiv + 1
                         /\ uploaded' = Append(uploaded, [id |-> t.id,
                                                           filename |-> body.filename])
                         /\ uploadTasks' = uploadTasks \ {t}
    /\ UNCHANGED <<userInput, csvFile, chatTasks, invocations, fetched>>

\* ------------------------------------------------------------ the timer
\* mutant: the callback empties the text and leaves the kind in place
TimerFireKeepsKind ==
    /\ timers # << >>
    /\ Head(timers) = 0
    /\ uploadStatus' = [uploadStatus EXCEPT !.textContent = ClearedStatus.textContent]
    /\ timers' = Tail(timers)
    /\ UNCHANGED <<chatBox, nextDiv, userInput, csvFile, lastUploadedFileName,
                   chatTasks, uploadTasks, invocations, fetched, uploaded>>

\* the callback given to setTimeout by setUploadStatus
TimerFire ==
    /\ timers # << >>
    /\ Head(timers) = 0
    /\ uploadStatus' = ClearedStatus
    /\ timers' = Tail(timers)
    /\ UNCHANGED <<chatBox, nextDiv, userInput, csvFile, lastUploadedFileName,
                   chatTasks, uploadTasks, invocations, fetched, uploaded>>

\* one unit of time passes; a timer that is due fires before time moves on
Tick ==
    /\ timers # << >>
    /\ \A i \in 1..Len(timers) : timers[i] > 0
    /\ timers' = [i \in 1..Len(timers) |-> timers[i] - 1]
    /\ UNCHANGED <<chatBox, nextDiv, userInput, csvFile, uploadStatus,
                   lastUploadedFileName, chatTasks, uploadTasks, invocations, fetched, uploaded>>

\* ------------------------------------------------------ specifications
\* the chat handler with the user typing and the backend answering /chat
NextChat ==
    \/ TypeInput
    \/ sendMessage
    \/ \E t \in chatTasks : ChatResponse(t)
    \/ \E t \in chatTasks : ChatFailure(t)
    \/ \E t \in chatTasks : ChatBody(t)

\* the upload handler with the user choosing a file, the backend answering
\* /upload, the status timers and the passage of time
NextUpload ==
    \/ SelectFile
    \/ uploadFile
    \/ \E t \in uploadTasks : UploadResponse(t)
    \/ \E t \in uploadTasks : UploadFailure(t)
    \/ \E t \in uploadTasks : UploadBody(t)
    \/ TimerFire
    \/ Tick

\* the whole client
Next == NextChat \/ NextUpload

Spec == Init /\ [][Next]_vars

\* the two handlers on their own: sendMessage never touches the status area,
\* the timers or the remembered filename, uploadFile never touches the input
\* field or the placeholders
SpecChat == Init /\ [][NextChat]_vars
SpecUpload == Init /\ [][NextUpload]_vars

\* the upload handler in a browser whose clock advances and whose event loop
\* runs every timer callback that is due
SpecUploadFair == SpecUpload /\ WF_vars(Tick) /\ WF_vars(TimerFire)

\* ------------------------------------------------------------ the claims
Last(seq) == seq[Len(seq)]
IsUser(e) == "user-message" \in e.classList
IsBot(e) == "bot-message" \in e.classList
UserMessages(box) == SelectSeq(box, IsUser)
StatusOf(message, type) ==
    [textContent |-> message, className |-> <<"status-message ", type>>]

\* the step runs the handler sendMessage / uploadFile
SendInvoked == invocations'.sendMessage = invocations.sendMessage + 1
UploadInvoked == invocations'.uploadFile = invocations.uploadFile + 1

\* the step finishes the invocation t of sendMessage / uploadFile
ChatDone(t) == t \in chatTasks /\ \A u \in chatTasks' : u.id # t.id
UploadDone(t) == t \in uploadTasks /\ \A u \in uploadTasks' : u.id # t.id

\* C1: a status is never erased by a timer started for an earlier status.
\* Whenever the status area goes from showing a status to empty, the timer
\* started by the very setUploadStatus call that set that status (the newest
\* pending one, the last of timers) has run its full delay.
C1_ClearedOnlyByOwnTimer ==
    [][(uploadStatus # ClearedStatus /\ uploadStatus' = ClearedStatus)
          => Last(timers) = 0]_vars

\* C2: two overlapping uploads that both succeed: once both are handled the
\* remembered filename is the one of the response handled last, whichever
\* request was issued last.
C2_LastArrivalWins ==
    (uploadTasks = {} /\ fetched.upload = 2 /\ Len(uploaded) = 2)
        => lastUploadedFileName = uploaded[2].filename

\* the second request's response was handled first, the first request's last,
\* they named different files, and the first request's name is remembered
C2_Witness ==
    /\ uploadTasks = {} /\ fetched.upload = 2 /\ Len(uploaded) = 2
    /\ uploaded[1].id > uploaded[2].id
    /\ uploaded[1].filename = Str("b.csv")
    /\ uploaded[2].filename = Str("a.csv")
    /\ lastUploadedFileName = Str("a.csv")

\* C3: the remembered filename is null until an upload response has been
\* handled successfully and from then on the filename of the most recently
\* handled successful response; only the handling of a successful upload
\* response (status ok, body an object) writes it.
C3_FileNameFrame ==
    /\ [](lastUploadedFileName =
             IF uploaded = << >> THEN Null ELSE Last(uploaded).filename)
    /\ [][lastUploadedFileName' # lastUploadedFileName
             => \E t \in uploadTasks :
                   /\ UploadDone(t)
                   /\ t.pc = "json"
                   /\ Ok(t.response.status)
                   /\ t.response.body.parsed = "object"
                   /\ lastUploadedFileName' = t.response.body.filename]_vars

\* a name is remembered, and since then a chat has been sent and answered and
\* every status timer has fired
C3_Witness ==
    /\ lastUploadedFileName = Str("a.csv")
    /\ Len(uploaded) = 1
    /\ fetched.chat = 1 /\ chatTasks = {}
    /\ Last(chatBox).textContent = <<"hi">>
    /\ timers = << >>

\* C4: sendMessage with an input that is non-empty after trimming appends
\* exactly one user message (the trimmed text) and issues exactly one /chat
\* request; with an empty or whitespace-only input it changes nothing, the
\* input field included; no other step issues a /chat request.
C4_OneMessageOneRequest ==
    [][/\ SendInvoked =>
            IF Trim(userInput) = << >>
            THEN UNCHANGED <<chatBox, nextDiv, userInput, csvFile, uploadStatus, timers,
                             lastUploadedFileName, chatTasks, uploadTasks, fetched,
                             uploaded>>
            ELSE /\ UserMessages(chatBox') =
                        Append(UserMessages(chatBox),
                               Element(nextDiv, "user", Trim(userInput)))
                 /\ fetched' = [fetched EXCEPT !.chat = @ + 1]
                 /\ Cardinality(chatTasks') = Cardinality(chatTasks) + 1
       /\ ~SendInvoked =>
            /\ fetched'.chat = fetched.chat
            /\ UserMessages(chatBox') = UserMessages(chatBox)]_vars

\* "a " has been sent as "a" with one request, and a whitespace-only input
\* has been tried and is still in the field
C4_Witness ==
    /\ invocations.sendMessage = 2
    /\ fetched.chat = 1
    /\ Len(UserMessages(chatBox)) = 1
    /\ UserMessages(chatBox)[1].textContent = <<"a">>
    /\ userInput = <<" ", " ">>

\* C5: whatever the outcome of a /chat request, the placeholder of its
\* invocation is gone before the bot message for it is appended: it is absent
\* while the body is awaited, and the step that finishes the invocation leaves
\* the transcript as it is without the placeholder plus one new bot element.
C5_PlaceholderRemovedFirst ==
    /\ [](\A t \in chatTasks :
             t.pc = "json" => ~Contains(chatBox, t.loadingMessageDiv))
    /\ [][\A t \in chatTasks :
             ChatDone(t) =>
                /\ ~Contains(chatBox', t.loadingMessageDiv)
                /\ IsBot(Last(chatBox'))
                /\ Last(chatBox').id = nextDiv
                /\ chatBox' = Append(RemoveChild(chatBox, t.loadingMessageDiv),
                                     Last(chatBox'))]_vars

\* two requests have been handled, the last one through the catch block, and
\* no placeholder is left
C5_Witness ==
    /\ fetched.chat = 2 /\ chatTasks = {}
    /\ Last(chatBox).textContent = ConnectText
    /\ \A i \in 1..Len(chatBox) : chatBox[i].textContent # TypingText

\* C6 as stated: every response with a success status ends in exactly one new
\* bot message whose text is the response field of the body.
C6_SuccessRendersField ==
    [][\A t \in chatTasks :
          (ChatDone(t) /\ t.pc = "json" /\ Ok(t.response.status)) =>
             /\ chatBox' = Append(chatBox,
                    Element(nextDiv, "bot", TextContent(t.response.body.response)))
             /\ ~Contains(chatBox', t.loadingMessageDiv)]_vars

\* C6 as amended: a response with a success status ends in exactly one new bot
\* message: the response field of the body (empty when the object has none)
\* when the body parses to an object, the connectivity-failure text when the
\* body fails to parse or is null; the placeholder is absent afterwards.
C6_SuccessRendersParsedField ==
    [][\A t \in chatTasks :
          (ChatDone(t) /\ t.pc = "json" /\ Ok(t.response.status)) =>
             /\ chatBox' = Append(chatBox,
                    Element(nextDiv, "bot",
                            IF t.response.body.parsed = "object"
                            THEN TextContent(t.response.body.response)
                            ELSE ConnectText))
             /\ ~Contains(chatBox', t.loadingMessageDiv)]_vars

\* one request, answered 200 {response: "hi"}: user message, then "hi"
C6_Witness ==
    /\ fetched.chat = 1 /\ chatTasks = {}
    /\ Len(chatBox) = 3
    /\ IsUser(chatBox[2])
    /\ chatBox[3] = Element(4, "bot", <<"hi">>)

\* C7: every response with a non-success status ends in exactly one new bot
\* message, marked "Bot Error: ", carrying the response field of the body when
\* the body parses and has one and the status-code message otherwise.
C7_ErrorRendersBotError ==
    [][\A t \in chatTasks :
          (ChatDone(t) /\ t.pc = "json" /\ ~Ok(t.response.status)) =>
             chatBox' = Append(chatBox,
                 Element(nextDiv, "bot",
                         BotErrorText(IF Truthy(t.response.body.response)
                                      THEN Text(t.response.body.response)
                                      ELSE HttpErrorText(t.response.status))))]_vars

\* C8: a /chat request that fails without a response: its placeholder, still
\* in the transcript, is removed, exactly one bot message with the
\* connectivity-failure text is appended, and nothing else of the client
\* changes.
C8_TransportFailure ==
    [][\A t \in chatTasks :
          (ChatDone(t) /\ t.pc = "fetch") =>
             /\ Contains(chatBox, t.loadingMessageDiv)
             /\ chatBox' = Append(RemoveChild(chatBox, t.loadingMessageDiv),
                                  Element(nextDiv, "bot", ConnectText))
             /\ chatTasks' = chatTasks \ {t}
             /\ UNCHANGED <<userInput, csvFile, uploadStatus, timers,
                            lastUploadedFileName, uploadTasks, invocations, fetched,
                            uploaded>>]_vars

\* one request, failed: user message, then the connectivity-failure message
C8_Witness ==
    /\ fetched.chat = 1 /\ chatTasks = {}
    /\ Len(chatBox) = 3
    /\ IsUser(chatBox[2])
    /\ chatBox[3] = Element(4, "bot", ConnectText)

\* C9: handling a successful /upload response {filename, message}: the
\* remembered filename becomes filename, the status area shows message with
\* kind success, and exactly one bot message mentioning filename is appended.
C9_UploadSuccess ==
    [][\A t \in uploadTasks :
          (/\ UploadDone(t) /\ t.pc = "json" /\ Ok(t.response.status)
           /\ t.response.body.parsed = "object"
           /\ t.response.body.filename.t = "string"
           /\ t.response.body.message.t = "string") =>
             /\ lastUploadedFileName' = t.response.body.filename
             /\ uploadStatus' = StatusOf(Text(t.response.body.message), "success")
             /\ chatBox' = Append(chatBox, Last(chatBox'))
             /\ IsBot(Last(chatBox'))
             /\ \E i \in 1..Len(Last(chatBox').textContent) :
                   Last(chatBox').textContent[i] = t.response.body.filename.v]_vars

\* a.csv was sent, the backend answered {filename: "b.csv", message: "ok"}
C9_Witness ==
    /\ uploadTasks = {} /\ fetched.upload = 1
    /\ lastUploadedFileName = Str("b.csv")
    /\ uploadStatus = StatusOf(<<"ok">>, "success")
    /\ Last(chatBox).textContent = UploadedText(Str("b.csv"))

\* C10: uploadFile with no file selected issues no request, shows the error
\* status in the same step and leaves transcript and remembered filename alone.
C10_NoFileSelected ==
    [][(UploadInvoked /\ csvFile = NoFile) =>
          /\ fetched' = fetched
          /\ uploadTasks' = uploadTasks
          /\ uploadStatus' = StatusOf(NoFileText, "error")
          /\ Last(timers') = Delay
          /\ UNCHANGED <<chatBox, lastUploadedFileName>>]_vars

\* the handler has run once without a file: no request, the error is shown
C10_Witness ==
    /\ invocations.uploadFile = 1 /\ fetched.upload = 0
    /\ csvFile = NoFile
    /\ uploadStatus = StatusOf(NoFileText, "error")

\* C11: an /upload request that ends in a non-success response or without a
\* response shows an error status carrying the message field of the body, or
\* the status-code message when the body has none, or the message of the
\* transport error; the transcript and the remembered filename stay as they are.
C11_UploadFailureStatus ==
    [][\A t \in uploadTasks :
          (UploadDone(t) /\ (t.pc = "fetch" \/ ~Ok(t.response.status))) =>
             /\ uploadStatus' = StatusOf(UploadFailedText(
                    IF t.pc = "fetch" THEN FetchErrorText
                    ELSE IF Truthy(t.response.body.message)
                         THEN Text(t.response.body.message)
                         ELSE HttpErrorText(t.response.status)), "error")
             /\ UNCHANGED <<chatBox, lastUploadedFileName>>]_vars

\* C12: the body of a /chat request carries as last_uploaded_file the
\* remembered filename of the moment sendMessage ran (null before any
\* successful upload), and the body of a request in flight never changes,
\* whatever upload response is handled meanwhile.
C12_RequestCarriesFileName ==
    [][/\ \A u \in chatTasks' :
             (\A t \in chatTasks : t.id # u.id) =>
                /\ SendInvoked
                /\ Field(u.body, "last_uploaded_file") = lastUploadedFileName
                /\ Field(u.body, "message") = Str(Trim(userInput))
       /\ \A t \in chatTasks : \A u \in chatTasks' :
             u.id = t.id => u.body = t.body]_vars

\* a request issued before any upload is still in flight and says null, while
\* a.csv has been uploaded and remembered since
C12_Witness ==
    /\ lastUploadedFileName = Str("a.csv")
    /\ \E t \in chatTasks : Field(t.body, "last_uploaded_file") = Null

\* a request issued after the upload of b.csv says b.csv
C12_WitnessLater ==
    \E t \in chatTasks : Field(t.body, "last_uploaded_file") = Str("b.csv")

\* C13: every status message is eventually cleared, text empty and kind
\* reset; when the timer of the status set last has fired the status area is
\* empty, and an empty status area stays empty until the next call of
\* setUploadStatus, the only step that starts a timer.
C13_StatusEventuallyCleared ==
    /\ (uploadStatus # ClearedStatus) ~> (uploadStatus = ClearedStatus)
    /\ [](timers = << >> => uploadStatus = ClearedStatus)
    /\ [][(uploadStatus = ClearedStatus /\ uploadStatus' # ClearedStatus)
             => Len(timers') = Len(timers) + 1]_vars

\* an upload has failed, its status has been shown and every timer has fired
C13_Witness ==
    /\ timers = << >>
    /\ uploadStatus = ClearedStatus
    /\ invocations.uploadFile > 0
    /\ fetched.upload > 0
    /\ uploaded = << >>
    /\ uploadTasks = {}

\* the children of the transcript, as a set
Children(box) == {box[i] : i \in 1..Len(box)}

\* e is the typing placeholder of a sendMessage invocation
IsPlaceholder(e) ==
    /\ e.textContent = TypingText
    /\ \E t \in chatTasks : t.loadingMessageDiv = e.id

\* C14: the transcript is append-only and ordered. In every step an element
\* that is no typing placeholder stays in the transcript as it is, the
\* elements that stay keep their order, and what is new comes after them.
C14_AppendOnly ==
    [][LET kept == SelectSeq(chatBox, LAMBDA e : e \in Children(chatBox'))
       IN  /\ \A e \in Children(chatBox) :
                 e \notin Children(chatBox') => IsPlaceholder(e)
           /\ Len(kept) <= Len(chatBox')
           /\ SubSeq(chatBox', 1, Len(kept)) = kept]_vars

\* two overlapping requests have been answered: both placeholders are gone,
\* the greeting, both user messages and both bot messages are there
C14_Witness ==
    /\ fetched.chat = 2
    /\ chatTasks = {}
    /\ \A e \in Children(chatBox) : e.textContent # TypingText
    /\ Len(chatBox) = 5
    /\ chatBox[1].textContent = HelloText
    /\ IsUser(chatBox[2])
    /\ IsUser(chatBox[3])

\* C15: no failure is fatal and nothing blocks input. In every reachable
\* state, whatever has failed and whatever is in flight, sendMessage can run
\* and issues a request for a non-blank input (and does nothing for a blank
\* one), and uploadFile can run and issues a request for a selected file
\* (and reports the missing file otherwise), as in the initial state.
C15_HandlersStayInvocable ==
    Calls < MaxCalls =>
       /\ ENABLED (/\ sendMessage
                   /\ IF Trim(userInput) = << >>
                      THEN chatBox' = chatBox /\ chatTasks' = chatTasks
                      ELSE /\ Len(chatBox') = Len(chatBox) + 2
                           /\ Cardinality(chatTasks') = Cardinality(chatTasks) + 1)
       /\ ENABLED (/\ uploadFile
                   /\ IF csvFile = NoFile
                      THEN /\ uploadStatus' = StatusOf(NoFileText, "error")
                           /\ uploadTasks' = uploadTasks
                      ELSE /\ uploadStatus' = StatusOf(UploadingText, "info")
                           /\ Cardinality(uploadTasks') = Cardinality(uploadTasks) + 1)

\* a request is in flight, a message is typed and a file chosen, and a
\* handler can still be invoked
C15_Witness ==
    /\ Calls < MaxCalls
    /\ chatTasks # {} \/ uploadTasks # {}
    /\ Trim(userInput) # << >>
    /\ csvFile # NoFile

\* a /chat request has failed and a handler can still be invoked
C15_WitnessAfterFailure ==
    /\ Calls < MaxCalls
    /\ Last(chatBox).textContent = ConnectText

\* the typing placeholders of the transcript
Placeholders(box) == {e \in Children(box) : e.textContent = TypingText}

\* the /chat requests whose outcome no handler has taken up yet: fetch has
\* neither resolved nor rejected
Unhandled(tasks) == {t \in tasks : t.pc = "fetch"}

\* C16: the transcript holds as many typing placeholders as there are /chat
\* requests whose outcome has not yet been handled, namely the placeholder of
\* each of them; the step that handles the outcome of a request removes the
\* placeholder of that request and of no other.
C16_OnePlaceholderPerRequest ==
    /\ [](/\ Cardinality(Placeholders(chatBox)) = Cardinality(Unhandled(chatTasks))
          /\ \A t \in Unhandled(chatTasks) :
                \E e \in Placeholders(chatBox) : e.id = t.loadingMessageDiv)
    /\ [][\A t \in Unhandled(chatTasks) :
             (\A u \in Unhandled(chatTasks') : u.id # t.id) =>
                Placeholders(chatBox) \ Placeholders(chatBox')
                    = {e \in Placeholders(chatBox) : e.id = t.loadingMessageDiv}]_vars

\* of two overlapping requests the second has been answered: its placeholder
\* is gone and its reply is there, the placeholder of the first is in place
C16_Witness ==
    /\ fetched.chat = 2
    /\ Cardinality(chatTasks) = 1
    /\ \A t \in chatTasks : t.pc = "fetch" /\ t.loadingMessageDiv = 3
    /\ Len(chatBox) = 5
    /\ chatBox[3].textContent = TypingText
    /\ IsBot(chatBox[5]) /\ chatBox[5].textContent # TypingText

\* the bot messages of the transcript apart from the greeting and the typing
\* placeholders: the answers to /chat requests and the upload confirmations
Answers(box) ==
    {e \in Children(box) : IsBot(e) /\ e.textContent # TypingText
                                    /\ e.textContent # HelloText}

\* C17: with overlapping sendMessage calls every response is rendered, none
\* is dropped as stale: the step that finishes a request appends one bot
\* message at the end of the transcript, behind the user message of that
\* request and behind everything appended before, so bot messages stand in
\* the order their responses were handled, and the transcript holds exactly
\* one bot message for each request that has been finished.
C17_EveryRequestAnswered ==
    /\ [](Cardinality(Answers(chatBox)) - Len(uploaded)
             = fetched.chat - Cardinality(chatTasks))
    /\ [][\A t \in chatTasks : ChatDone(t) =>
             LET n == Len(chatBox')
                 rest == SelectSeq(chatBox, LAMBDA e : e.id # t.loadingMessageDiv)
             IN  /\ n = Len(rest) + 1
                 /\ SubSeq(chatBox', 1, n - 1) = rest
                 /\ chatBox'[n] \in Answers(chatBox') \ Children(chatBox)
                 /\ \E i \in 1..(n - 1) :
                       /\ IsUser(chatBox'[i])
                       /\ chatBox'[i].id = t.loadingMessageDiv - 1
                       /\ Str(chatBox'[i].textContent) = Field(t.body, "message")]_vars

\* of two overlapping requests the second has been answered with "hi" while
\* the body of the response to the first is still being read: the reply to
\* the second stands behind both user messages, the first has none yet
C17_Witness ==
    /\ fetched.chat = 2
    /\ \E t \in chatTasks : chatTasks = {t} /\ t.pc = "json" /\ t.loadingMessageDiv = 3
    /\ Len(chatBox) = 4
    /\ IsUser(chatBox[2]) /\ IsUser(chatBox[3])
    /\ chatBox[4].textContent = <<"hi">>

====
